---- MODULE Spec2Model ----
(***************************************************************************)
(* Model of src/bluetooth_lock.py: the BluetoothLock monitor loop          *)
(* (monitor_device / handle_device_far), the target resolver               *)
(* (find_target_device), the scanner wrapper (scan_devices) and the lock   *)
(* actuator (lock_mac).                                                    *)
(*                                                                         *)
(* Strings are tuples of one-character strings so that str.lower() and the *)
(* `in` substring test are computed, not assumed.                          *)
(***************************************************************************)
EXTENDS Integers, Sequences, FiniteSets, TLC

VARIABLES
    config,          \* self.config, loaded once in __init__
    lock_triggered,  \* self.lock_triggered
    pc,              \* position of the monitor_device coroutine
    trig0,           \* lock_triggered when the current cycle's scan began
    mainObs,         \* what the current cycle's main scan saw
    reObs,           \* what the current cycle's grace re-sample saw
    graceWaits,      \* grace sleeps begun in the current cycle
    cycleLocks,      \* lock_mac invocations in the current cycle
    screenCmd,       \* outcome of pmset displaysleepnow in the current cycle
    keychainCmd,     \* outcome of security lock-keychain in the current cycle
    lockCalls,       \* lock_mac invocations in the run (saturating)
    locksSinceNear,  \* lock_mac invocations since the last NEAR reading (saturating)
    failedSinceNear, \* a lock_mac call failed and no NEAR reading came since
    everFound,       \* some scan of the run resolved the target
    phase,           \* 0: no lock yet, 1: lock_triggered was set, 2: a NEAR main scan followed
    snapshot,        \* devices, as returned by scan_devices (resolver runs)
    resolved         \* target_result, as returned by find_target_device (resolver runs)

vars == <<config, lock_triggered, pc, trig0, mainObs, reObs, graceWaits,
          cycleLocks, screenCmd, keychainCmd, lockCalls,
          locksSinceNear, failedSinceNear, everFound, phase, snapshot,
          resolved>>

cycleVars == <<trig0, mainObs, reObs, graceWaits, cycleLocks, screenCmd,
               keychainCmd>>

runVars == <<lockCalls, locksSinceNear, failedSinceNear, everFound, phase>>

resolverVars == <<snapshot, resolved>>

----------------------------------------------------------------------------
(* Bounds of the model *)

MaxDevices == 2      \* devices in one scan snapshot
MaxLockCalls == 2    \* the lock call counters saturate here

(* Program constants *)

DefaultThreshold == -70
DefaultScanInterval == 0
DefaultGracePeriod == 3
BackoffDelay == 5

----------------------------------------------------------------------------
(* Strings *)

LowerChar(c) ==
    CASE c = "A" -> "a"
      [] c = "B" -> "b"
      [] c = "P" -> "p"
      [] c = "H" -> "h"
      [] OTHER -> c

\* str.lower()
Lower(s) == [i \in 1..Len(s) |-> LowerChar(s[i])]

\* sub in s
Contains(sub, s) ==
    \E i \in 0..(Len(s) - Len(sub)) : SubSeq(s, i + 1, i + Len(sub)) = sub

----------------------------------------------------------------------------
(* Inputs *)

TargetNames == { <<>>, <<"P", "h">> }
TargetAddresses == { <<>>, <<"a", "B">> }
Thresholds == { DefaultThreshold - 1, DefaultThreshold }
ScanIntervals == { DefaultScanInterval, BackoffDelay }

Configs ==
    [ target_device_name : TargetNames,
      target_device_address : TargetAddresses,
      distance_threshold : Thresholds,
      scan_interval : ScanIntervals,
      grace_period : { DefaultGracePeriod },
      lock_enabled : BOOLEAN ]

\* device.name is None (modelled as the empty tuple, equally falsy) or a string
DeviceNames == { <<>>, <<"x", "p", "H">> }
DeviceAddresses == { <<"A", "b">>, <<"c", "d">> }
\* advertisement_data.rssi: below, at and above each threshold
Readings == (DefaultThreshold - 2)..DefaultThreshold

Devices == [ name : DeviceNames, address : DeviceAddresses, rssi : Readings ]

\* the dict filled by the scan callback: insertion order, one entry per address
Snapshots ==
    { s \in UNION { [1..n -> Devices] : n \in 0..MaxDevices } :
        \A i, j \in 1..Len(s) : i # j => s[i].address # s[j].address }

\* what the scanner adapter does in one scan: it raises, or it fills the dict
ScanOutcomes ==
    [ err : { FALSE }, devices : Snapshots ] \cup { [ err |-> TRUE, devices |-> <<>> ] }

\* candidates of the resolver runs: named and unnamed, matching and not
ResolverNames == DeviceNames \cup { <<"p", "x">>, <<"h">> }
ResolverAddresses == DeviceAddresses \cup { <<"a", "b">> }
ResolverDevices ==
    [ name : ResolverNames, address : ResolverAddresses,
      rssi : { DefaultThreshold - 1, DefaultThreshold } ]

ResolverSnapshots ==
    { s \in UNION { [1..n -> ResolverDevices] : n \in 0..MaxDevices } :
        \A i, j \in 1..Len(s) : i # j => s[i].address # s[j].address }

ResolverOutcomes ==
    [ err : { FALSE }, devices : ResolverSnapshots ]
        \cup { [ err |-> TRUE, devices |-> <<>> ] }

PmsetResults == { "ok", "CalledProcessError", "OSError" }
KeychainResults == { "ok", "nonzero", "OSError" }

----------------------------------------------------------------------------
(* scan_devices, find_target_device *)

\* scan_devices: any exception of the scanner is caught and {} is returned
scan_devices(outcome) == IF outcome.err THEN <<>> ELSE outcome.devices

\* variant: the name test without its `target_name and` guard ('' is in every
\* string)
Matches_NoEmptyGuard(d) ==
    LET target_name == config.target_device_name
        target_address == config.target_device_address
    IN \/ /\ d.name # <<>>
          /\ Contains(Lower(target_name), Lower(d.name))
       \/ /\ target_address # <<>>
          /\ Lower(d.address) = Lower(target_address)

\* variant: the tests without .lower()
Matches_CaseSensitive(d) ==
    LET target_name == config.target_device_name
        target_address == config.target_device_address
    IN \/ /\ target_name # <<>>
          /\ d.name # <<>>
          /\ Contains(target_name, d.name)
       \/ /\ target_address # <<>>
          /\ d.address = target_address

\* the two tests of the loop body of find_target_device
Matches(d) ==
    LET target_name == config.target_device_name
        target_address == config.target_device_address
    IN \/ /\ target_name # <<>>
          /\ d.name # <<>>
          /\ Contains(Lower(target_name), Lower(d.name))
       \/ /\ target_address # <<>>
          /\ Lower(d.address) = Lower(target_address)

RECURSIVE FindFrom(_, _)
FindFrom(devices, i) ==
    IF i > Len(devices) THEN <<>>
    ELSE IF Matches(devices[i]) THEN << devices[i], devices[i].rssi >>
    ELSE FindFrom(devices, i + 1)

\* find_target_device: None is the empty tuple, else (device, rssi)
find_target_device(devices) == FindFrom(devices, 1)

----------------------------------------------------------------------------
(* Decisions of monitor_device and handle_device_far *)

\* variant: the flag is cleared before the `if target_result:` test
TriggeredAfterMain_AlwaysCleared(target_result, lt) == FALSE

\* variant: the flag is never cleared by the main scan
TriggeredAfterMain_NeverCleared(target_result, lt) == lt

\* self.lock_triggered after the main scan: cleared in the `if target_result:`
\* branch, before the threshold check; left alone in the else branch
TriggeredAfterMain(target_result, lt) ==
    IF target_result # <<>> THEN FALSE ELSE lt

\* variant: > in place of <
IsFar_Reversed(rssi) == rssi > config.distance_threshold

\* variant: <= in place of <
IsFar_Inclusive(rssi) == rssi <= config.distance_threshold

\* rssi < self.config.get('distance_threshold', -70)
IsFar(rssi) == rssi < config.distance_threshold

\* variant: the guard without its `not`
GraceGuard_Inverted(lt) == lt

\* if not self.lock_triggered
GraceGuard(lt) == ~lt

\* variant: <= in place of < in the re-check
Confirmed_Inclusive(target_result) ==
    \/ target_result = <<>>
    \/ target_result[2] <= config.distance_threshold

\* variant: the re-check without its `not target_result` test
Confirmed_FoundOnly(target_result) ==
    /\ target_result # <<>>
    /\ target_result[2] < config.distance_threshold

\* if not target_result or target_result[1] < threshold
Confirmed(target_result) ==
    \/ target_result = <<>>
    \/ target_result[2] < config.distance_threshold

\* variant: lock_mac without the lock_enabled test
LockDisabled_Ignored == FALSE

\* if not self.config.get('lock_enabled', True): return
LockDisabled == ~config.lock_enabled

\* variant: no except branch, the exception ends monitor_device
ExceptPc_Unhandled == "crashed"

\* except Exception in monitor_device: log, sleep 5, loop again
ExceptPc == "backoff"

\* variant: the except branch sleeps scan_interval
SleepDelay_Interval ==
    CASE pc = "sleep" -> config.scan_interval
      [] pc = "backoff" -> config.scan_interval
      [] pc = "grace" -> config.grace_period
      [] OTHER -> 0

\* the delay of the sleep the coroutine is in
SleepDelay ==
    CASE pc = "sleep" -> config.scan_interval
      [] pc = "backoff" -> BackoffDelay
      [] pc = "grace" -> config.grace_period
      [] OTHER -> 0

----------------------------------------------------------------------------
(* Observations *)

\* what a scan saw: the adapter failed, the target was not resolved, or a reading
ObsOf(outcome) ==
    IF outcome.err THEN << "err" >>
    ELSE LET r == find_target_device(outcome.devices)
         IN IF r = <<>> THEN << "miss" >> ELSE << "hit", r[2] >>

Taken(o) == o[1] # "none"
Found(o) == o[1] = "hit"
NotFound(o) == o[1] \in { "miss", "err" }
NearObs(o) == o[1] = "hit" /\ o[2] >= config.distance_threshold
FarObs(o) == o[1] = "hit" /\ o[2] < config.distance_threshold

Sat(n) == IF n < MaxLockCalls THEN n + 1 ELSE MaxLockCalls

LockFailed == screenCmd \in { "failed", "raised" } \/ keychainCmd = "raised"
LockRaised == screenCmd = "raised" \/ keychainCmd = "raised"

----------------------------------------------------------------------------
(* State machine *)

Init ==
    /\ config \in Configs
    /\ lock_triggered = FALSE
    /\ pc = "scan"
    /\ trig0 = FALSE
    /\ mainObs = << "none" >>
    /\ reObs = << "none" >>
    /\ graceWaits = 0
    /\ cycleLocks = 0
    /\ screenCmd = "none"
    /\ keychainCmd = "none"
    /\ lockCalls = 0
    /\ locksSinceNear = 0
    /\ failedSinceNear = FALSE
    /\ everFound = FALSE
    /\ phase = 0
    /\ snapshot = <<>>
    /\ resolved = <<>>

\* lock_mac returned to handle_device_far: self.lock_triggered = True, then the
\* cycle's sleep(scan_interval)
LockReturned ==
    /\ lock_triggered' = TRUE
    /\ pc' = "sleep"
    /\ phase' = IF phase = 0 THEN 1 ELSE phase

\* one main scan of monitor_device, up to the next await
MainScan ==
    /\ pc = "scan"
    /\ \E outcome \in ScanOutcomes :
         LET devices == scan_devices(outcome)
             target_result == find_target_device(devices)
             found == target_result # <<>>
             lt == TriggeredAfterMain(target_result, lock_triggered)
             far == found /\ IsFar(target_result[2])
             obs == ObsOf(outcome)
         IN /\ lock_triggered' = lt
            /\ pc' = IF far /\ GraceGuard(lt) THEN "grace" ELSE "sleep"
            /\ graceWaits' = IF far /\ GraceGuard(lt) THEN 1 ELSE 0
            /\ trig0' = lock_triggered
            /\ mainObs' = obs
            /\ everFound' = (everFound \/ Found(obs))
            /\ locksSinceNear' = IF NearObs(obs) THEN 0 ELSE locksSinceNear
            /\ failedSinceNear' = IF NearObs(obs) THEN FALSE ELSE failedSinceNear
            /\ phase' = IF phase = 1 /\ NearObs(obs) THEN 2 ELSE phase
    /\ reObs' = << "none" >>
    /\ cycleLocks' = 0
    /\ screenCmd' = "none"
    /\ keychainCmd' = "none"
    /\ UNCHANGED <<config, lockCalls, resolverVars>>

\* await asyncio.sleep(grace_period) in handle_device_far
GraceWait ==
    /\ pc = "grace"
    /\ pc' = "rescan"
    /\ UNCHANGED <<config, lock_triggered, trig0, mainObs, reObs, graceWaits, cycleLocks,
                   screenCmd, keychainCmd, runVars, resolverVars>>

\* the re-sample of handle_device_far and the entry of lock_mac
ReScan ==
    /\ pc = "rescan"
    /\ \E outcome \in ScanOutcomes :
         LET devices == scan_devices(outcome)
             target_result == find_target_device(devices)
             obs == ObsOf(outcome)
             near == NearObs(obs)
         IN /\ reObs' = obs
            /\ everFound' = (everFound \/ Found(obs))
            /\ IF Confirmed(target_result)
               THEN /\ cycleLocks' = cycleLocks + 1
                    /\ lockCalls' = Sat(lockCalls)
                    /\ locksSinceNear' = IF near THEN 0 ELSE Sat(locksSinceNear)
                    /\ failedSinceNear' = IF near THEN FALSE ELSE failedSinceNear
                    /\ IF LockDisabled
                       THEN LockReturned
                       ELSE /\ pc' = "pmset"
                            /\ UNCHANGED <<lock_triggered, phase>>
               ELSE /\ pc' = "sleep"
                    /\ locksSinceNear' = IF near THEN 0 ELSE locksSinceNear
                    /\ failedSinceNear' = IF near THEN FALSE ELSE failedSinceNear
                    /\ UNCHANGED <<cycleLocks, lockCalls, lock_triggered, phase>>
    /\ UNCHANGED <<config, trig0, mainObs, graceWaits, screenCmd, keychainCmd,
                   resolverVars>>

\* variant: pmset run with check=False, a non-zero exit goes on to the keychain
Pmset_Unchecked ==
    /\ pc = "pmset"
    /\ \E r \in PmsetResults :
         CASE r = "ok" ->
                /\ screenCmd' = "ok"
                /\ pc' = "keychain"
                /\ UNCHANGED <<lock_triggered, phase, failedSinceNear>>
           [] r = "CalledProcessError" ->
                /\ screenCmd' = "failed"
                /\ failedSinceNear' = TRUE
                /\ pc' = "keychain"
                /\ UNCHANGED <<lock_triggered, phase>>
           [] r = "OSError" ->
                /\ screenCmd' = "raised"
                /\ failedSinceNear' = TRUE
                /\ pc' = ExceptPc
                /\ UNCHANGED <<lock_triggered, phase>>
    /\ UNCHANGED <<config, trig0, mainObs, reObs, graceWaits, cycleLocks,
                   keychainCmd, lockCalls, locksSinceNear, everFound,
                   resolverVars>>

\* subprocess.run(['pmset', 'displaysleepnow'], check=True)
Pmset ==
    /\ pc = "pmset"
    /\ \E r \in PmsetResults :
         CASE r = "ok" ->
                /\ screenCmd' = "ok"
                /\ pc' = "keychain"
                /\ UNCHANGED <<lock_triggered, phase, failedSinceNear>>
           [] r = "CalledProcessError" ->
                /\ screenCmd' = "failed"
                /\ failedSinceNear' = TRUE
                /\ LockReturned
           [] r = "OSError" ->
                /\ screenCmd' = "raised"
                /\ failedSinceNear' = TRUE
                /\ pc' = ExceptPc
                /\ UNCHANGED <<lock_triggered, phase>>
    /\ UNCHANGED <<config, trig0, mainObs, reObs, graceWaits, cycleLocks,
                   keychainCmd, lockCalls, locksSinceNear, everFound,
                   resolverVars>>

\* subprocess.run(['security', 'lock-keychain'], check=False)
Keychain ==
    /\ pc = "keychain"
    /\ \E r \in KeychainResults :
         CASE r = "ok" ->
                /\ keychainCmd' = "ok"
                /\ LockReturned
                /\ UNCHANGED failedSinceNear
           [] r = "nonzero" ->
                /\ keychainCmd' = "nonzero"
                /\ LockReturned
                /\ UNCHANGED failedSinceNear
           [] r = "OSError" ->
                /\ keychainCmd' = "raised"
                /\ failedSinceNear' = TRUE
                /\ pc' = ExceptPc
                /\ UNCHANGED <<lock_triggered, phase>>
    /\ UNCHANGED <<config, trig0, mainObs, reObs, graceWaits, cycleLocks,
                   screenCmd, lockCalls, locksSinceNear, everFound,
                   resolverVars>>

\* await asyncio.sleep(scan_interval) at the end of a cycle
Sleep ==
    /\ pc = "sleep"
    /\ pc' = "scan"
    /\ UNCHANGED <<config, lock_triggered, cycleVars, runVars, resolverVars>>

\* await asyncio.sleep(5) in the except branch of monitor_device
Backoff ==
    /\ pc = "backoff"
    /\ pc' = "scan"
    /\ UNCHANGED <<config, lock_triggered, cycleVars, runVars, resolverVars>>

\* KeyboardInterrupt / task cancellation: not an Exception, ends asyncio.run
Shutdown ==
    /\ pc \notin { "stopped", "crashed" }
    /\ pc' = "stopped"
    /\ UNCHANGED <<config, lock_triggered, cycleVars, runVars, resolverVars>>

\* devices = await self.scan_devices(), on its own
TakeSnapshot ==
    /\ pc = "scan"
    /\ \E outcome \in ResolverOutcomes : snapshot' = scan_devices(outcome)
    /\ pc' = "find"
    /\ UNCHANGED <<config, lock_triggered, cycleVars, runVars, resolved>>

\* target_result = self.find_target_device(devices), on its own
Resolve ==
    /\ pc = "find"
    /\ resolved' = find_target_device(snapshot)
    /\ pc' = "found"
    /\ UNCHANGED <<config, lock_triggered, cycleVars, runVars, snapshot>>

\* the iteration is over: its locals devices and target_result are dropped
Forget ==
    /\ pc = "found"
    /\ snapshot' = <<>>
    /\ resolved' = <<>>
    /\ pc' = "scan"
    /\ UNCHANGED <<config, lock_triggered, cycleVars, runVars>>

ResolveNext ==
    \/ TakeSnapshot
    \/ Resolve
    \/ Forget

\* the resolver applied to every snapshot under every configuration
ResolveSpec == Init /\ [][ResolveNext]_vars

\* the steps of the monitor_device coroutine
Loop == MainScan \/ GraceWait \/ ReScan \/ Pmset \/ Keychain \/ Sleep \/ Backoff

Next ==
    \/ MainScan
    \/ GraceWait
    \/ ReScan
    \/ Pmset
    \/ Keychain
    \/ Sleep
    \/ Backoff
    \/ Shutdown

Spec == Init /\ [][Next]_vars

\* the event loop runs the one task whenever it can continue: sleeps, scans and
\* subprocesses end
FairSpec == Spec /\ WF_vars(Loop)

----------------------------------------------------------------------------
(* Properties *)

\* the cycle has run to one of its two closing sleeps
CycleEnd == pc \in { "sleep", "backoff" }

\* the cycle took its re-sample and it did not show the target NEAR
ReConfirms == Taken(reObs) /\ (FarObs(reObs) \/ NotFound(reObs))

\* the coroutine is past the cycle's work without having entered lock_mac or
\* the except branch
QuietEnd == pc \in { "sleep", "scan", "stopped" }

\* C1: between two consecutive NEAR observations of the target (and before the
\* first one) lock_mac is invoked at most once, however many FAR or not-found
\* cycles occur.
C1_AtMostOneLockPerEpisode == locksSinceNear <= 1

\* C2: a cycle whose main scan is FAR with lock_triggered false and whose
\* re-sample is FAR or not-found invokes lock_mac exactly once and ends with
\* lock_triggered true.
C2_ConfirmLocksAndMarks ==
    (CycleEnd /\ ~trig0 /\ FarObs(mainObs) /\ ReConfirms)
        => (cycleLocks = 1 /\ lock_triggered)

\* C3: a cycle whose main scan is FAR and whose re-sample is NEAR (reading >=
\* threshold) does not invoke lock_mac, runs no lock command, and ends in the
\* normal sleep with lock_triggered false.
C3_GraceCancel ==
    (FarObs(mainObs) /\ NearObs(reObs))
        => /\ cycleLocks = 0
           /\ screenCmd = "none"
           /\ keychainCmd = "none"
           /\ ~lock_triggered
           /\ QuietEnd

C3_Witness == FarObs(mainObs) /\ NearObs(reObs) /\ pc = "sleep" /\ lockCalls > 0

\* C4: a cycle whose main scan does not find the target leaves lock_triggered
\* as it was, starts no grace wait, takes no re-sample and does not invoke
\* lock_mac; and while the target has never been found no lock call was made.
C4_NotFoundNoOp ==
    /\ NotFound(mainObs)
         => /\ lock_triggered = trig0
            /\ graceWaits = 0
            /\ ~Taken(reObs)
            /\ cycleLocks = 0
            /\ QuietEnd
    /\ ~everFound => (lockCalls = 0 /\ ~lock_triggered)

C4_Witness == mainObs = << "miss" >> /\ trig0 /\ lock_triggered /\ pc = "sleep"

\* C5: a cycle whose main scan reads the target NEAR never invokes lock_mac,
\* never starts a grace wait, and leaves lock_triggered false whatever it was;
\* no lock call is counted while NEAR main scans follow one another.
C5_NearNeverLocks ==
    NearObs(mainObs)
        => /\ cycleLocks = 0
           /\ graceWaits = 0
           /\ ~Taken(reObs)
           /\ ~lock_triggered
           /\ locksSinceNear = 0
           /\ QuietEnd

C5_Witness ==
    /\ NearObs(mainObs)
    /\ mainObs[2] = config.distance_threshold
    /\ trig0
    /\ pc = "sleep"

\* C6: once lock_triggered has been set, a NEAR main scan clears it, and a
\* later cycle with main scan FAR, grace wait and re-sample FAR or not-found
\* invokes lock_mac again: the run then counts at least two lock calls.
C6_Rearm ==
    /\ (trig0 /\ NearObs(mainObs)) => ~lock_triggered
    /\ (phase = 2 /\ FarObs(mainObs) /\ ReConfirms)
         => (graceWaits = 1 /\ cycleLocks = 1 /\ lockCalls >= 2)

C6_Witness ==
    /\ phase = 2
    /\ FarObs(mainObs)
    /\ ReConfirms
    /\ lockCalls >= 2
    /\ lock_triggered
    /\ pc = "sleep"

\* C7 as stated: a scanner error in a cycle's scan sends the cycle to the
\* backoff sleep, and no lock call is made in that cycle.
C7_ScanErrorBacksOff ==
    ((mainObs = << "err" >> \/ reObs = << "err" >>) /\ pc \notin { "scan", "stopped" })
        => (pc = "backoff" /\ cycleLocks = 0)

\* C7 amended: a scanner error is swallowed by scan_devices and taken as
\* target-not-found. In a main scan the cycle goes to the normal
\* scan_interval sleep, never the backoff, with lock_triggered unchanged and
\* no lock call; in the grace re-check it confirms the episode and lock_mac is
\* invoked.
C7_ScanErrorIsNotFound ==
    /\ mainObs = << "err" >>
         => /\ pc # "backoff"
            /\ (pc = "sleep" => SleepDelay = config.scan_interval)
            /\ lock_triggered = trig0
            /\ cycleLocks = 0
    /\ reObs = << "err" >>
         => /\ cycleLocks = 1
            /\ (LockDisabled => lock_triggered)

C7_Witness == mainObs = << "err" >> /\ trig0 /\ pc = "sleep"

C9_FailedLockIsSpent ==
    [][ /\ pc' # "crashed"
        /\ (LockFailed' /\ CycleEnd') => lock_triggered'
        /\ failedSinceNear => cycleLocks' # cycleLocks + 1 ]_vars

\* C10: with lock_enabled true, no fault and no cancellation, if from some
\* point on every main scan and every re-sample reads the target below the
\* threshold, lock_mac is invoked and lock_triggered becomes true, again and
\* again.
C10_AwayEventuallyLocks ==
    <>[]( /\ config.lock_enabled
          /\ pc # "stopped"
          /\ ~LockFailed
          /\ FarObs(mainObs)
          /\ (Taken(reObs) => FarObs(reObs)) )
        => ([]<>(cycleLocks = 1) /\ []<>lock_triggered)

C10_Witness ==
    /\ config.lock_enabled
    /\ ~trig0
    /\ FarObs(mainObs)
    /\ FarObs(reObs)
    /\ ~LockFailed
    /\ cycleLocks = 1
    /\ lock_triggered
    /\ pc = "sleep"

\* C11: the main check and the grace re-check both classify a reading r
\* against the threshold t as FAR exactly when r < t: a found main reading
\* starts the grace wait iff it is below the threshold, a found re-sample
\* leads to lock_mac iff it is below the threshold, and a reading equal to
\* the threshold does neither.
C11_FarIffBelow ==
    /\ Found(mainObs)
         => ((mainObs[2] < config.distance_threshold) <=> (graceWaits = 1))
    /\ Found(reObs)
         => ((reObs[2] < config.distance_threshold) <=> (cycleLocks = 1))

C11_Witness ==
    /\ FarObs(mainObs)
    /\ Found(reObs)
    /\ reObs[2] = config.distance_threshold
    /\ cycleLocks = 0
    /\ pc = "sleep"

\* C13: a cycle whose main scan reads the target FAR while lock_triggered is
\* already true starts no grace wait, takes no re-sample, does not invoke
\* lock_mac and leaves lock_triggered true.
C13_FarWhileTriggeredNoOp ==
    (trig0 /\ FarObs(mainObs))
        => /\ pc # "grace"
           /\ graceWaits = 0
           /\ ~Taken(reObs)
           /\ cycleLocks = 0
           /\ lock_triggered

\* C14: lock_triggered is true only when a lock_mac call was made since the
\* last NEAR observation, and once true it stays true until a main scan
\* reads the target NEAR: it goes from true to false only in a step whose
\* main scan classifies the target NEAR.
C14_TriggeredUntilNear ==
    [][ /\ (lock_triggered /\ ~lock_triggered') => NearObs(mainObs')
        /\ lock_triggered' => locksSinceNear' >= 1 ]_vars

\* C15: with lock_enabled false no lock command is ever run and the
\* coroutine never reaches one, yet a confirmed grace episode invokes
\* lock_mac once and sets lock_triggered.
C15_DisabledStillMarks ==
    ~config.lock_enabled
        => /\ screenCmd = "none"
           /\ keychainCmd = "none"
           /\ pc \notin { "pmset", "keychain" }
           /\ (FarObs(mainObs) /\ ReConfirms) => (cycleLocks = 1 /\ lock_triggered)

C15_Witness ==
    /\ ~config.lock_enabled
    /\ FarObs(mainObs)
    /\ ReConfirms
    /\ lock_triggered
    /\ pc = "sleep"

\* C16: whenever lock_mac has been invoked in a cycle (or a lock command is
\* about to run), that cycle's main scan read the target FAR, one grace wait
\* was taken and the re-sample was taken; lock_mac is invoked at most once in
\* a cycle and never in a cycle whose main scan was not-found or NEAR.
C16_LockOnlyAfterGrace ==
    (cycleLocks >= 1 \/ pc \in { "pmset", "keychain" } \/ screenCmd # "none")
        => /\ FarObs(mainObs)
           /\ graceWaits = 1
           /\ Taken(reObs)
           /\ cycleLocks = 1

C16_Witness ==
    /\ cycleLocks = 1
    /\ screenCmd = "ok"
    /\ keychainCmd = "ok"
    /\ FarObs(mainObs)
    /\ pc = "sleep"

\* C18: with neither a target name nor a target address configured no scan
\* ever resolves the target, so the monitor stays as constructed:
\* lock_triggered false, no grace wait, no re-sample, no lock call.
C18_EmptySpecNeverMatches ==
    (config.target_device_name = <<>> /\ config.target_device_address = <<>>)
        => /\ ~everFound
           /\ ~Found(mainObs)
           /\ ~Taken(reObs)
           /\ graceWaits = 0
           /\ lockCalls = 0
           /\ ~lock_triggered
           /\ QuietEnd

C18_Witness ==
    /\ config.target_device_name = <<>>
    /\ config.target_device_address = <<>>
    /\ mainObs = << "miss" >>
    /\ pc = "sleep"

\* C19 as stated: the delay of the backoff sleep is strictly longer than the
\* configured scan_interval.
C19_BackoffLonger == pc = "backoff" => SleepDelay > config.scan_interval

\* C19 amended: the backoff sleep is 5 seconds whatever scan_interval is, the
\* normal closing sleep is scan_interval, and the backoff is strictly the
\* longer of the two exactly when scan_interval is below 5.
C19_BackoffFixed ==
    /\ pc = "backoff"
         => /\ SleepDelay = BackoffDelay
            /\ (SleepDelay > config.scan_interval
                   <=> config.scan_interval < BackoffDelay)
    /\ pc = "sleep" => SleepDelay = config.scan_interval

C19_Witness ==
    /\ pc = "backoff"
    /\ config.scan_interval = DefaultScanInterval
    /\ SleepDelay > config.scan_interval

\* C20: a failed scan is taken as target-not-found. In a main scan the state
\* is left unchanged and the cycle takes the normal sleep; in the grace
\* re-check the episode is confirmed: lock_mac is invoked and the cycle ends
\* with lock_triggered true.
C20_ScanErrorAsNotFound ==
    /\ mainObs = << "err" >>
         => (lock_triggered = trig0 /\ cycleLocks = 0 /\ ~Taken(reObs) /\ QuietEnd)
    /\ reObs = << "err" >> => cycleLocks = 1
    /\ (reObs = << "err" >> /\ CycleEnd) => lock_triggered

\* letters that differ only in case
CasePairs == { <<"a", "A">>, <<"b", "B">>, <<"p", "P">>, <<"h", "H">> }

SameLetter(a, b) == a = b \/ <<a, b>> \in CasePairs \/ <<b, a>> \in CasePairs

\* s holds sub at some offset, letters compared without regard to case
HoldsIgnoringCase(sub, s) ==
    \E off \in 0..(Len(s) - Len(sub)) :
        \A k \in 1..Len(sub) : SameLetter(s[off + k], sub[k])

\* a candidate matches the target spec
SpecMatch(d) ==
    \/ /\ config.target_device_name # <<>>
       /\ d.name # <<>>
       /\ HoldsIgnoringCase(config.target_device_name, d.name)
    \/ /\ config.target_device_address # <<>>
       /\ Len(d.address) = Len(config.target_device_address)
       /\ HoldsIgnoringCase(config.target_device_address, d.address)

MatchingIndexes == { i \in 1..Len(snapshot) : SpecMatch(snapshot[i]) }

\* C12: find_target_device returns none iff no candidate of the snapshot
\* matches the target spec (name set, candidate named, name contains it
\* without regard to case; or address set and equal without regard to case);
\* otherwise it returns the first matching candidate in iteration order with
\* that candidate's reading.
C12_FirstMatchOrNone ==
    pc = "found"
        => /\ (resolved = <<>>) <=> (MatchingIndexes = {})
           /\ MatchingIndexes # {}
                => LET k == CHOOSE i \in MatchingIndexes :
                                \A j \in MatchingIndexes : i <= j
                   IN resolved = << snapshot[k], snapshot[k].rssi >>

C12_Witness ==
    /\ pc = "found"
    /\ Len(snapshot) = 2
    /\ ~SpecMatch(snapshot[1])
    /\ snapshot[1].name # <<>>
    /\ SpecMatch(snapshot[2])
    /\ snapshot[2].name # <<>>
    /\ config.target_device_address = <<>>
    /\ resolved = << snapshot[2], snapshot[2].rssi >>

\* C17 as stated: outside the actuator itself, no state has the screen-lock
\* command applied without the keychain-lock command having been run.
C17_LockAtomic ==
    pc # "keychain" => ~(screenCmd = "ok" /\ keychainCmd \in { "none", "raised" })

\* C17 amended: the lock action is two commands run in order: the
\* keychain-lock command is run only after the screen-lock command succeeded,
\* and the screen lock is left without the keychain command having been
\* started only inside the actuator, after a shutdown there, or when the
\* keychain command raised.
C17_ScreenThenKeychain ==
    /\ (keychainCmd # "none" \/ pc = "keychain") => screenCmd = "ok"
    /\ (screenCmd = "ok" /\ keychainCmd = "none") => pc \in { "keychain", "stopped" }
    /\ (screenCmd = "ok" /\ keychainCmd = "raised" /\ CycleEnd) => pc = "backoff"

C17_Witness == pc = "stopped" /\ screenCmd = "ok" /\ keychainCmd = "none"

====
